---- MODULE Spec2Model ----
(***************************************************************************)
(* InfiniDB: a SQLite virtual-table module whose schema and rows are       *)
(* produced by an external generator and cached (main.go).                 *)
(*                                                                         *)
(* State: the process-wide schemaCache map, the .cache/<name>_data.json    *)
(* files, the OPENAI_API_KEY of the running process, the in-flight         *)
(* Connect/Open calls (one per thread, with their position and locals),    *)
(* the table handles and the cursor handed to the engine.                  *)
(***************************************************************************)
EXTENDS Integers, Sequences, FiniteSets, TLC

\* ------------------------------------------------------------------ bounds
NumThreads == 2
MaxRows == 2
MaxPos == MaxRows + 1

Threads == 1..NumThreads
TableNames == {"t1"}
TableDescs == {"d1", "d2"}

\* ------------------------------------------------------- columns (main.go:21)
Col(n, t, c) == [Name |-> n, Type |-> t, Constraints |-> c]

\* the column names a generator answer may use, in the byte order Go sorts map keys
NameOrder == <<"a", "b">>

SchemaS1 == << Col("a", "INTEGER", "PRIMARY KEY") >>
SchemaS2 == << Col("a", "REAL", ""), Col("b", "TEXT", "") >>
SchemaS3 == << Col("b", "BLOB", "") >>

\* what the schema generator may answer: a transport error, a content that does
\* not parse as a TableSchema, or a parsed TableSchema (valid or not)
SchemaAnswers ==
    { [kind |-> "error", columns |-> <<>>],
      [kind |-> "unparsable", columns |-> <<>>] }
    \cup
    { [kind |-> "parsed", columns |-> cs] : cs \in
        { <<>>,
          SchemaS1, SchemaS2, SchemaS3,
          << Col("a", "INTEGER", ""), Col("a", "TEXT", "") >>,
          << Col("", "TEXT", "") >>,
          << Col("a", "VARCHAR", "") >>,
          << Col("a", "INTEGER", ""), Col("b", "VARCHAR", "") >> } }

validTypes == {"INTEGER", "TEXT", "REAL", "BLOB"}

\* a validation that does not look at the column types
RECURSIVE ValidateFromNoTypes(_, _, _)
ValidateFromNoTypes(columns, i, seenNames) ==
    IF i > Len(columns) THEN ""
    ELSE IF columns[i].Name = "" \/ columns[i].Name \in seenNames
         THEN "invalid or duplicate column name"
    ELSE ValidateFromNoTypes(columns, i + 1, seenNames \cup {columns[i].Name})

\* main.go:109-124: the first failure met, or "" when the columns pass
RECURSIVE ValidateFrom(_, _, _)
ValidateFrom(columns, i, seenNames) ==
    IF i > Len(columns) THEN ""
    ELSE IF columns[i].Name = "" \/ columns[i].Name \in seenNames
         THEN "invalid or duplicate column name"
    ELSE IF columns[i].Type \notin validTypes
         THEN "invalid column type"
    ELSE ValidateFrom(columns, i + 1, seenNames \cup {columns[i].Name})

Validate(columns) ==
    IF Len(columns) = 0 THEN "no columns generated"
    ELSE ValidateFrom(columns, 1, {})

\* main.go:130-138: the CREATE TABLE text, as the list of its column parts
SchemaPart(col) ==
    IF col.Constraints # "" THEN <<col.Name, col.Type, col.Constraints>>
    ELSE <<col.Name, col.Type>>

BuildSchema(columns) == [i \in 1..Len(columns) |-> SchemaPart(columns[i])]

\* ------------------------------------------- rows and their JSON encoding
\* A decoded JSON scalar (interface{} after json.Unmarshal): a float64, held in
\* halves (2 is 1.0, 3 is 1.5), or a string.
Num(n) == [k |-> "float64", n |-> n, s |-> ""]
Str(s) == [k |-> "string", n |-> 0, s |-> s]

\* JSON text is the sequence of its bytes, each a one-character string
Quote == "\""
DigitBytes == <<"0", "1", "2", "3", "4", "5", "6", "7", "8", "9">>
Digit(b) == CHOOSE d \in 0..9 : DigitBytes[d + 1] = b
IsDigit(b) == \E d \in 0..9 : DigitBytes[d + 1] = b

RECURSIVE Digits(_)
Digits(n) ==
    IF n < 10 THEN << DigitBytes[n + 1] >>
    ELSE Digits(n \div 10) \o << DigitBytes[(n % 10) + 1] >>

\* a formatting that drops the fraction
FormatFloatWhole(n) == Digits(n \div 2)

\* strconv's shortest text of a float64, for the non-negative halves
FormatFloat(n) == Digits(n \div 2) \o (IF n % 2 = 1 THEN <<".", "5">> ELSE <<>>)

\* the bytes of a string; the names and values that get written are one byte long
Chars(s) == IF s = "" THEN <<>> ELSE << s >>

MarshalString(s) == << Quote >> \o Chars(s) \o << Quote >>

MarshalValue(val) ==
    IF val.k = "float64" THEN FormatFloat(val.n) ELSE MarshalString(val.s)

\* encoding/json writes a map's members in sorted key order
RECURSIVE MarshalMembers(_, _, _)
MarshalMembers(row, i, first) ==
    IF i > Len(NameOrder) THEN <<>>
    ELSE IF NameOrder[i] \notin DOMAIN row THEN MarshalMembers(row, i + 1, first)
    ELSE (IF first THEN <<>> ELSE << "," >>)
         \o MarshalString(NameOrder[i]) \o << ":" >> \o MarshalValue(row[NameOrder[i]])
         \o MarshalMembers(row, i + 1, FALSE)

MarshalRow(row) == << "{" >> \o MarshalMembers(row, 1, TRUE) \o << "}" >>

RECURSIVE MarshalRows(_, _)
MarshalRows(rows, i) ==
    IF i > Len(rows) THEN <<>>
    ELSE (IF i = 1 THEN <<>> ELSE << "," >>)
         \o MarshalRow(rows[i]) \o MarshalRows(rows, i + 1)

\* json.Marshal(dataResp.Rows), main.go:225
Marshal(rows) == << "[" >> \o MarshalRows(rows, 1) \o << "]" >>

ParseFail == [ok |-> FALSE, rows |-> <<>>, next |-> 0]
NoValue == [ok |-> FALSE, v |-> Num(0), next |-> 0]

\* a string from its opening quote at i - 1: the bytes up to the next quote
RECURSIVE ParseString(_, _, _)
ParseString(b, i, acc) ==
    IF i > Len(b) THEN [ok |-> FALSE, v |-> "", next |-> 0]
    ELSE IF b[i] = Quote THEN [ok |-> TRUE, v |-> acc, next |-> i + 1]
    ELSE ParseString(b, i + 1, acc \o b[i])

\* the run of digits from i on: its value and the index after it
RECURSIVE ParseDigits(_, _, _)
ParseDigits(b, i, acc) ==
    IF i <= Len(b) /\ IsDigit(b[i]) THEN ParseDigits(b, i + 1, 10 * acc + Digit(b[i]))
    ELSE [v |-> acc, next |-> i]

\* a number from its first digit at i: an integer part without a leading zero
\* and an optional fraction; the fractions held are .0 and .5
ParseNumber(b, i) ==
    LET int == ParseDigits(b, i, 0)
        j == int.next
    IN  IF j - i > 1 /\ b[i] = "0" THEN NoValue
        ELSE IF j <= Len(b) /\ b[j] = "."
        THEN LET frac == ParseDigits(b, j + 1, 0)
             IN  IF frac.next = j + 2 /\ frac.v \in {0, 5}
                 THEN [ok |-> TRUE, v |-> Num(2 * int.v + frac.v \div 5), next |-> frac.next]
                 ELSE NoValue
        ELSE [ok |-> TRUE, v |-> Num(2 * int.v), next |-> j]

\* the value at i: a string or a number (the bytes of the files spell no other)
ParseValue(b, i) ==
    IF i > Len(b) THEN NoValue
    ELSE IF b[i] = Quote
    THEN LET s == ParseString(b, i + 1, "")
         IN  IF s.ok THEN [ok |-> TRUE, v |-> Str(s.v), next |-> s.next] ELSE NoValue
    ELSE IF IsDigit(b[i]) THEN ParseNumber(b, i)
    ELSE NoValue

\* the members of an object from byte i on; a repeated key keeps the last value
RECURSIVE ParseMembers(_, _, _)
ParseMembers(b, i, row) ==
    IF i > Len(b) \/ b[i] # Quote THEN ParseFail
    ELSE LET key == ParseString(b, i + 1, "")
         IN  IF ~key.ok \/ key.next > Len(b) \/ b[key.next] # ":" THEN ParseFail
             ELSE LET val == ParseValue(b, key.next + 1)
                      row2 == [x \in (DOMAIN row) \cup {key.v} |->
                                 IF x = key.v THEN val.v ELSE row[x]]
                  IN  IF ~val.ok \/ val.next > Len(b) THEN ParseFail
                      ELSE IF b[val.next] = "}"
                      THEN [ok |-> TRUE, rows |-> row2, next |-> val.next + 1]
                      ELSE IF b[val.next] = "," THEN ParseMembers(b, val.next + 1, row2)
                      ELSE ParseFail

ParseObject(b, i) ==
    IF i + 1 > Len(b) \/ b[i] # "{" THEN ParseFail
    ELSE IF b[i + 1] = "}" THEN [ok |-> TRUE, rows |-> <<>>, next |-> i + 2]
    ELSE ParseMembers(b, i + 1, <<>>)

\* the elements of the array from byte i on; nothing may follow the closing ]
RECURSIVE ParseElems(_, _, _)
ParseElems(b, i, rows) ==
    LET o == ParseObject(b, i)
    IN  IF ~o.ok \/ o.next > Len(b) THEN ParseFail
        ELSE IF b[o.next] = "," THEN ParseElems(b, o.next + 1, Append(rows, o.rows))
        ELSE IF b[o.next] = "]" /\ o.next = Len(b)
             THEN [ok |-> TRUE, rows |-> Append(rows, o.rows), next |-> o.next + 1]
        ELSE ParseFail

\* json.Unmarshal(data, &rows) with rows []map[string]interface{}, main.go:172-173
Unmarshal(b) ==
    IF Len(b) < 2 \/ b[1] # "[" THEN ParseFail
    ELSE IF b[2] = "]"
         THEN (IF Len(b) = 2 THEN [ok |-> TRUE, rows |-> <<>>, next |-> 3] ELSE ParseFail)
    ELSE ParseElems(b, 2, <<>>)

\* ------------------------------------------------------ the data generator
\* main.go:318-356: one required property per column, typed from the column type
JsonType(type) ==
    IF type = "INTEGER" THEN "integer"
    ELSE IF type = "REAL" THEN "number"
    ELSE "string"

makeDataSchema(columns) ==
    [i \in 1..Len(columns) |-> [name |-> columns[i].Name, type |-> JsonType(columns[i].Type)]]

\* the decoded values a conforming answer may carry for a property
ValuesOf(jsonType) ==
    IF jsonType = "integer" THEN {Num(2), Num(4)}
    ELSE IF jsonType = "number" THEN {Num(3)}
    ELSE {Str("x")}

AllValues == {Num(2), Num(3), Num(4), Str("x")}

\* the row objects that conform to a data schema (strict structured output)
RowsOf(dataSchema) ==
    LET names == {dataSchema[i].name : i \in 1..Len(dataSchema)}
    IN  {r \in [names -> AllValues] :
            \A i \in 1..Len(dataSchema) : r[dataSchema[i].name] \in ValuesOf(dataSchema[i].type)}

\* what the data generator may answer: a transport error, a content that does
\* not parse as a DataResponse, or a parsed DataResponse of 0..maxRows rows
DataAnswersUpTo(dataSchema, maxRows) ==
    { [kind |-> "error", rows |-> <<>>],
      [kind |-> "unparsable", rows |-> <<>>] }
    \cup
    { [kind |-> "parsed", rows |-> rs] :
        rs \in UNION {[1..n -> RowsOf(dataSchema)] : n \in 0..maxRows} }

DataAnswers(dataSchema) == DataAnswersUpTo(dataSchema, MaxRows)

\* ------------------------------------------------------------------ state
VARIABLES
    schemaCache,   \* main.go:32: table name -> columns, for the cached names
    files,         \* .cache/<name>_data.json: table name -> bytes, for the files that exist
    apiKey,        \* whether OPENAI_API_KEY is set in the running process
    th,            \* per thread: the Connect or Open call it is in, its locals, its result
    tables,        \* the InfiniTables that Connect returned in the running process
    prevResolve,   \* history: name -> the last returned Connect of this process
    lastGen,       \* history: name -> the last returned Open that used the generator
    openFailed,    \* history: the names whose last returned Open of this process failed
    cursor,        \* an InfiniCursor the engine scans
    out,           \* what the last call on the cursor or the table returned
    scan           \* the engine's scan loop over the cursor: its position and its trace

vars == <<schemaCache, files, apiKey, th, tables, prevResolve, lastGen, openFailed,
          cursor, out, scan>>

Empty == <<>>

\* an InfiniTable (main.go:147-151), with the schema text that was declared to
\* the engine before it was returned
NoTable == [tableName |-> "", tableDesc |-> "", columns |-> <<>>, declared |-> <<>>]

NoCursor == [tableName |-> "", data |-> <<>>, pos |-> 0, columns |-> <<>>]

\* a call on the cursor or the table: its name, the cursor position it was made
\* at, its column argument, its error, and the boolean, integer, cell or
\* constraint usage it returned
NoResult == [kind |-> "", n |-> 0, s |-> ""]
NoOut ==
    [op |-> "", at |-> 0, col |-> 0, err |-> "", b |-> FALSE, n |-> 0, res |-> NoResult,
     used |-> <<>>]

\* no scan loop is running
NoScan == [pc |-> "off", visited |-> <<>>, advances |-> 0]

Idle ==
    [pc |-> "idle", op |-> "", tableName |-> "", tableDesc |-> "",
     columns |-> <<>>, rows |-> <<>>, gen |-> FALSE, err |-> "", from |-> "",
     declared |-> <<>>, vtab |-> NoTable, request |-> <<>>, persisted |-> FALSE,
     cur |-> NoCursor, buf |-> <<>>,
     startCache |-> Empty, startFiles |-> Empty, afterFail |-> FALSE]

Put(f, key, val) == [x \in (DOMAIN f) \cup {key} |-> IF x = key THEN val ELSE f[x]]

Init ==
    /\ schemaCache = Empty
    /\ files = Empty
    /\ apiKey \in BOOLEAN
    /\ th = [t \in Threads |-> Idle]
    /\ tables = {}
    /\ prevResolve = Empty
    /\ lastGen = Empty
    /\ openFailed = {}
    /\ cursor = NoCursor
    /\ out = NoOut
    /\ scan = NoScan

\* the call of thread t ends with an error
Fail(t, call, msg) ==
    th' = [th EXCEPT ![t] = [call EXCEPT !.pc = "done", !.err = msg]]

\* ---------------------------------------------------------------- Connect
\* &InfiniTable{...}, main.go:144
NewTable(call, columns) ==
    [tableName |-> call.tableName, tableDesc |-> call.tableDesc, columns |-> columns,
     declared |-> <<>>]

\* a table returned whether or not the engine took the schema
HandleUndeclared(call, columns, declOk) ==
    [NewTable(call, columns) EXCEPT !.declared = IF declOk THEN BuildSchema(columns) ELSE <<>>]

\* main.go:140-144: the table is returned only after DeclareVTab took the schema
Handle(call, columns, declOk) ==
    IF declOk THEN [NewTable(call, columns) EXCEPT !.declared = BuildSchema(columns)]
    ELSE NoTable

\* main.go:129-144: build the schema text, declare it, return the table
Declare(t, call, columns, declOk) ==
    LET vt == Handle(call, columns, declOk)
    IN  /\ th' = [th EXCEPT ![t] =
                    [call EXCEPT !.pc = "done", !.columns = columns,
                                 !.declared = IF declOk THEN BuildSchema(columns) ELSE <<>>,
                                 !.err = IF declOk THEN "" ELSE "DeclareVTab failed",
                                 !.vtab = vt]]
        /\ tables' = IF vt # NoTable THEN tables \cup {vt} ELSE tables

\* a lookup that never finds the entry
CachedNever(cache, name) == FALSE

\* main.go:68: cached, ok := schemaCache[tableName]
Cached(cache, name) == name \in DOMAIN cache

\* the columns stored before they are validated
CacheAfterUnchecked(cache, name, columns) == Put(cache, name, columns)

\* main.go:109-126: the schemaCache after a parsed answer: the columns are
\* stored when they pass validation
CacheAfter(cache, name, columns) ==
    IF Validate(columns) = "" THEN Put(cache, name, columns) ELSE cache

\* main.go:57-97: up to the generator request
ConnectStart(t, args, promptOk, declOk, hist) ==
    /\ th[t].pc = "idle"
    /\ LET call == [Idle EXCEPT !.op = "Connect",
                                !.startCache = IF hist THEN schemaCache ELSE Empty]
       IN  IF Len(args) < 4
           THEN Fail(t, call, "missing table name argument") /\ UNCHANGED tables
           ELSE LET named == [call EXCEPT !.tableName = args[3], !.tableDesc = args[4]]
                IN  IF Cached(schemaCache, args[3])
                    THEN Declare(t, named, schemaCache[args[3]], declOk)
                    ELSE IF ~apiKey
                    THEN Fail(t, named, "OPENAI_API_KEY not set") /\ UNCHANGED tables
                    ELSE IF ~promptOk
                    THEN Fail(t, named, "failed to render schema prompt") /\ UNCHANGED tables
                    ELSE /\ th' = [th EXCEPT ![t] = [named EXCEPT !.pc = "c_gen", !.gen = TRUE]]
                         /\ UNCHANGED tables
    /\ UNCHANGED <<schemaCache, files, apiKey, prevResolve, lastGen, openFailed, cursor, out, scan>>

\* main.go:99-144: the generator's answer, validation, the cache store, the declaration
ConnectGen(t, ans, declOk) ==
    /\ th[t].pc = "c_gen"
    /\ LET call == th[t]
       IN  IF ans.kind = "error"
           THEN Fail(t, call, "schema generation failed") /\ UNCHANGED <<schemaCache, tables>>
           ELSE IF ans.kind = "unparsable"
           THEN Fail(t, call, "failed to parse schema JSON") /\ UNCHANGED <<schemaCache, tables>>
           ELSE /\ schemaCache' = CacheAfter(schemaCache, call.tableName, ans.columns)
                /\ IF Validate(ans.columns) # ""
                   THEN Fail(t, call, Validate(ans.columns)) /\ UNCHANGED tables
                   ELSE Declare(t, call, ans.columns, declOk)
    /\ UNCHANGED <<files, apiKey, prevResolve, lastGen, openFailed, cursor, out, scan>>

\* ------------------------------------------------------------------- Open
\* the bytes of .cache/<name>_data.json, none when there is no such file
FileOf(name) == IF name \in DOMAIN files THEN files[name] ELSE <<>>

\* a cache file that is never used
ReadCacheNever(data) == [ok |-> FALSE, rows |-> <<>>, next |-> 0]

\* json.Unmarshal of the bytes os.ReadFile returned, main.go:171-173
ReadCache(data) == Unmarshal(data)

\* &InfiniCursor{...}, main.go:175 and 231
NewCursor(call, rows) ==
    [tableName |-> call.tableName, data |-> rows, pos |-> 0, columns |-> call.columns]

\* main.go:179-206: without a usable cache file, up to the generator request
OpenMiss(t, call, promptOk) ==
    IF ~apiKey
    THEN Fail(t, call, "OPENAI_API_KEY not set")
    ELSE IF ~promptOk
    THEN Fail(t, call, "failed to render data prompt")
    ELSE th' = [th EXCEPT ![t] = [call EXCEPT !.pc = "o_gen", !.gen = TRUE,
                                             !.request = makeDataSchema(call.columns)]]

\* main.go:164-171: Open on the table vt that a Connect returned; os.ReadFile
\* opens the cache file, and when there is none Open goes on without it
OpenStart(t, vt, promptOk, hist) ==
    /\ th[t].pc = "idle"
    /\ vt \in tables
    /\ LET call == [Idle EXCEPT !.op = "Open", !.vtab = vt, !.tableName = vt.tableName,
                                !.tableDesc = vt.tableDesc, !.columns = vt.columns,
                                !.startFiles = IF hist THEN files ELSE Empty,
                                !.afterFail = (vt.tableName \in openFailed)]
       IN  IF vt.tableName \in DOMAIN files
           THEN th' = [th EXCEPT ![t] = [call EXCEPT !.pc = "o_read"]]
           ELSE OpenMiss(t, call, promptOk)
    /\ UNCHANGED <<schemaCache, files, apiKey, tables, prevResolve, lastGen, openFailed, cursor, out, scan>>

\* what one read of the open file returns at offset n: the bytes the file
\* holds from there on, none at or past its end
ReadAt(file, n) == IF Len(file) > n THEN SubSeq(file, n + 1, Len(file)) ELSE <<>>

\* main.go:171-177: one read of os.ReadFile's loop; bytes are appended to the
\* buffer, and the read that returns none ends the loop: the buffer is decoded,
\* and rows that decode are returned in a cursor, with no generator call
OpenRead(t, promptOk) ==
    /\ th[t].pc = "o_read"
    /\ LET call == th[t]
           chunk == ReadAt(FileOf(call.tableName), Len(call.buf))
           cached == ReadCache(call.buf)
           read == [call EXCEPT !.buf = <<>>]
       IN  IF chunk # <<>>
           THEN th' = [th EXCEPT ![t] = [call EXCEPT !.buf = call.buf \o chunk]]
           ELSE IF cached.ok
           THEN th' = [th EXCEPT ![t] = [read EXCEPT !.pc = "done", !.from = "cache",
                                                    !.cur = NewCursor(call, cached.rows)]]
           ELSE OpenMiss(t, read, promptOk)
    /\ UNCHANGED <<schemaCache, files, apiKey, tables, prevResolve, lastGen, openFailed, cursor, out, scan>>

\* the zero-row check left out
DataErrorNoEmpty(ans) ==
    IF ans.kind = "error" THEN "data generation failed"
    ELSE IF ans.kind = "unparsable" THEN "failed to parse data JSON"
    ELSE ""

\* main.go:208-223: the error of a data answer, or "" when it is accepted
DataError(ans) ==
    IF ans.kind = "error" THEN "data generation failed"
    ELSE IF ans.kind = "unparsable" THEN "failed to parse data JSON"
    ELSE IF Len(ans.rows) = 0 THEN "no data generated"
    ELSE ""

\* an Open that gives up when its cache file cannot be written
OpenResultFatal(call, rows, wrote) ==
    IF wrote
    THEN [call EXCEPT !.pc = "done", !.from = "gen", !.rows = rows, !.persisted = TRUE,
                      !.cur = NewCursor(call, rows)]
    ELSE [call EXCEPT !.pc = "done", !.err = "failed to write cache file"]

\* main.go:226-231: whether or not the write went through (a failure is only
\* logged), Open returns the cursor over the generated rows
OpenResult(call, rows, wrote) ==
    [call EXCEPT !.pc = "done", !.from = "gen", !.rows = rows, !.persisted = wrote,
                 !.cur = NewCursor(call, rows)]

\* main.go:208-226: the generator's answer, its checks, and os.WriteFile opening
\* the cache file (O_CREATE|O_TRUNC); when it cannot be opened the rows are
\* returned all the same (main.go:227-231)
OpenGen(t, ans, openOk) ==
    /\ th[t].pc = "o_gen"
    /\ LET call == th[t]
       IN  IF DataError(ans) # ""
           THEN Fail(t, call, DataError(ans)) /\ UNCHANGED files
           ELSE IF openOk
           THEN /\ files' = Put(files, call.tableName, <<>>)
                /\ th' = [th EXCEPT ![t] = [call EXCEPT !.pc = "o_write", !.rows = ans.rows,
                                                       !.startFiles = Empty]]
           ELSE /\ th' = [th EXCEPT ![t] = OpenResult(call, ans.rows, FALSE)]
                /\ UNCHANGED files
    /\ UNCHANGED <<schemaCache, apiKey, tables, prevResolve, lastGen, openFailed, cursor, out, scan>>

\* the lengths at which a write of data may stop: after any byte
WriteCuts(data) == 0..Len(data)

\* the file after k bytes of data were written from offset 0
Written(old, data, k) ==
    SubSeq(data, 1, k) \o (IF Len(old) > k THEN SubSeq(old, k + 1, Len(old)) ELSE <<>>)

\* main.go:226-231: the write of the marshalled rows (complete, or failing after
\* k bytes), then the cursor over the generated rows
OpenWrite(t, k) ==
    /\ th[t].pc = "o_write"
    /\ LET call == th[t]
           jsonData == Marshal(call.rows)
           old == FileOf(call.tableName)
       IN  /\ k \in WriteCuts(jsonData)
           /\ files' = Put(files, call.tableName, Written(old, jsonData, k))
           /\ th' = [th EXCEPT ![t] = OpenResult(call, call.rows, k = Len(jsonData))]
    /\ UNCHANGED <<schemaCache, apiKey, tables, prevResolve, lastGen, openFailed, cursor, out, scan>>

\* ------------------------------------------------------- return and restart
\* the errors of Connect that come from the generator's answer (main.go:99-123)
GenerationFailures ==
    {"schema generation failed", "failed to parse schema JSON", "no columns generated",
     "invalid or duplicate column name", "invalid column type"}

\* how a Connect ended, as the history keeps it
Outcome(err) ==
    IF err = "" THEN "table"
    ELSE IF err \in GenerationFailures THEN "generation failed"
    ELSE "failed"

\* the caller takes the result of the finished call (and closes its cursor);
\* hist says whether the history variables are kept (they are in Spec only)
Return(t, hist) ==
    /\ th[t].pc = "done"
    /\ th' = [th EXCEPT ![t] = Idle]
    /\ prevResolve' =
          IF ~hist THEN prevResolve
          ELSE IF th[t].op = "Connect" /\ th[t].tableName # ""
          THEN Put(prevResolve, th[t].tableName,
                   [gen |-> th[t].gen, outcome |-> Outcome(th[t].err),
                    columns |-> th[t].columns, tableDesc |-> th[t].tableDesc])
          ELSE prevResolve
    /\ lastGen' =
          IF ~hist THEN lastGen
          ELSE IF th[t].op = "Open" /\ th[t].err = "" /\ th[t].from = "gen"
          THEN Put(lastGen, th[t].tableName,
                   [rows |-> th[t].cur.data, persisted |-> th[t].persisted,
                    restarted |-> FALSE])
          ELSE lastGen
    /\ openFailed' =
          IF ~hist \/ th[t].op # "Open" THEN openFailed
          ELSE IF th[t].err # "" THEN openFailed \cup {th[t].tableName}
          ELSE openFailed \ {th[t].tableName}
    /\ UNCHANGED <<schemaCache, files, apiKey, tables, cursor, out, scan>>

\* the process ends (at any point of any call) and a new one starts: the
\* schemaCache, the tables and the cursors are gone, the cache files stay
Restart ==
    /\ schemaCache' = Empty
    /\ th' = [t \in Threads |-> Idle]
    /\ tables' = {}
    /\ apiKey' \in BOOLEAN
    /\ prevResolve' = Empty
    /\ lastGen' = [n \in DOMAIN lastGen |-> [lastGen[n] EXCEPT !.restarted = TRUE]]
    /\ openFailed' = {}
    /\ UNCHANGED <<files, cursor, out, scan>>

\* ----------------------------------------------------------- InfiniCursor
\* an end test that is one row late
EOFLate(cur) == cur.pos > Len(cur.data)

\* main.go:251-253
EOF(cur) == cur.pos >= Len(cur.data)

\* main.go:255-257
Rowid(cur) == cur.pos

Cell(kind, n, s) == [kind |-> kind, n |-> n, s |-> s]

\* int64(v) of a float64 held in halves: the fraction is dropped
Int64(n) == n \div 2

\* main.go:260: the bounds check of Column
OutOfRange(cur, col) ==
    cur.pos < 0 \/ cur.pos >= Len(cur.data) \/ col < 0 \/ col >= Len(cur.columns)

\* main.go:272-304: the cell handed to the engine for a present value, by column
\* type (an int64 is held whole, a float64 in halves)
Coerce(type, value) ==
    IF type = "INTEGER"
    THEN IF value.k = "float64" THEN [err |-> "", res |-> Cell("int64", Int64(value.n), "")]
         ELSE IF value.k = "int64" THEN [err |-> "", res |-> Cell("int64", value.n, "")]
         ELSE [err |-> "type mismatch: expected integer", res |-> NoResult]
    ELSE IF type = "TEXT"
    THEN IF value.k = "string" THEN [err |-> "", res |-> Cell("text", 0, value.s)]
         ELSE [err |-> "type mismatch: expected text", res |-> NoResult]
    ELSE IF type = "REAL"
    THEN IF value.k = "float64" THEN [err |-> "", res |-> Cell("double", value.n, "")]
         ELSE [err |-> "type mismatch: expected real", res |-> NoResult]
    ELSE IF type = "BLOB"
    THEN IF value.k \in {"string", "bytes"} THEN [err |-> "", res |-> Cell("blob", 0, value.s)]
         ELSE [err |-> "type mismatch: expected blob", res |-> NoResult]
    ELSE [err |-> "unsupported column type", res |-> NoResult]

\* main.go:259-306
ColumnResult(cur, col) ==
    IF OutOfRange(cur, col)
    THEN [err |-> "invalid cursor position or column index", res |-> NoResult]
    ELSE LET row == cur.data[cur.pos + 1]
             colName == cur.columns[col + 1].Name
         IN  IF colName \notin DOMAIN row
             THEN [err |-> "", res |-> Cell("null", 0, "")]
             ELSE Coerce(cur.columns[col + 1].Type, row[colName])

\* a Filter that leaves the cursor where it is
FilterKeepsPos(cur, idxNum, idxStr, vals) == cur

\* main.go:242-245: the cursor after Filter, whatever the arguments
FilterPos(cur, idxNum, idxStr, vals) == [cur EXCEPT !.pos = 0]

Filter(idxNum, idxStr, vals) ==
    /\ cursor # NoCursor
    /\ cursor' = FilterPos(cursor, idxNum, idxStr, vals)
    /\ out' = [NoOut EXCEPT !.op = "Filter", !.at = cursor.pos]
    /\ UNCHANGED <<schemaCache, files, apiKey, th, tables, prevResolve, lastGen, openFailed>>

\* a Next that steps over a row
NextPosSkips(cur) == [cur EXCEPT !.pos = cur.pos + 2]

\* main.go:246-249: the cursor after Next
NextPos(cur) == [cur EXCEPT !.pos = cur.pos + 1]

\* InfiniCursor.Next; the scan is followed up to MaxPos
CursorNext ==
    /\ cursor # NoCursor
    /\ cursor.pos < MaxPos
    /\ cursor' = NextPos(cursor)
    /\ out' = [NoOut EXCEPT !.op = "Next", !.at = cursor.pos]
    /\ UNCHANGED <<schemaCache, files, apiKey, th, tables, prevResolve, lastGen, openFailed>>

CursorEOF ==
    /\ cursor # NoCursor
    /\ out' = [NoOut EXCEPT !.op = "EOF", !.at = cursor.pos, !.b = EOF(cursor)]
    /\ UNCHANGED <<schemaCache, files, apiKey, th, tables, prevResolve, lastGen, openFailed,
                   cursor>>

CursorRowid ==
    /\ cursor # NoCursor
    /\ out' = [NoOut EXCEPT !.op = "Rowid", !.at = cursor.pos, !.n = Rowid(cursor)]
    /\ UNCHANGED <<schemaCache, files, apiKey, th, tables, prevResolve, lastGen, openFailed,
                   cursor>>

\* a Column that moves on to the next row when it fails
ColumnCursorSkipsFailed(cur, col) ==
    IF ColumnResult(cur, col).err # "" /\ cur.pos < MaxPos THEN NextPos(cur) ELSE cur

\* main.go:259-306: the cursor after Column, which assigns none of its fields
ColumnCursor(cur, col) == cur

CursorColumn(col) ==
    /\ cursor # NoCursor
    /\ LET r == ColumnResult(cursor, col)
       IN  out' = [NoOut EXCEPT !.op = "Column", !.at = cursor.pos, !.col = col,
                                !.err = r.err, !.res = r.res]
    /\ cursor' = ColumnCursor(cursor, col)
    /\ UNCHANGED <<schemaCache, files, apiKey, th, tables, prevResolve, lastGen, openFailed>>

\* main.go:241
Close ==
    /\ cursor # NoCursor
    /\ out' = [NoOut EXCEPT !.op = "Close", !.at = cursor.pos]
    /\ UNCHANGED <<schemaCache, files, apiKey, th, tables, prevResolve, lastGen, openFailed,
                   cursor>>

\* ------------------------------------------------------ InfiniTable.BestIndex
\* a constraint of the query, as the engine hands it over (sqlite3.InfoConstraint)
Constraint(column, op, usable) == [Column |-> column, Op |-> op, Usable |-> usable]

\* main.go:156: make([]bool, len(cst)), one false per constraint
Used(cst) == [i \in 1..Len(cst) |-> FALSE]

\* main.go:155-159
BestIndex(cst, ob) ==
    /\ out' = [NoOut EXCEPT !.op = "BestIndex", !.at = cursor.pos, !.n = Len(cst),
                            !.used = Used(cst)]
    /\ UNCHANGED <<schemaCache, files, apiKey, th, tables, prevResolve, lastGen, openFailed,
                   cursor>>

\* --------------------------------------------------------- specifications
\* the argument lists of Connect: module, database, table name and a
\* description out of descs, or no description at all
ConnectArgs(descs) ==
    { <<"infinidb", "main", n, d>> : n \in TableNames, d \in descs }
    \cup { <<"infinidb", "main", n>> : n \in TableNames }

\* the steps of the call thread t is in; the schema generator answers out of
\* schemas and the data generator up to maxRows rows
Step(t, hist, schemas, maxRows) ==
    \/ \E ans \in schemas, declOk \in BOOLEAN : ConnectGen(t, ans, declOk)
    \/ \E ans \in DataAnswersUpTo(th[t].request, maxRows), openOk \in BOOLEAN :
          OpenGen(t, ans, openOk)
    \/ \E promptOk \in BOOLEAN : OpenRead(t, promptOk)
    \/ \E k \in 0..Len(Marshal(th[t].rows)) : OpenWrite(t, k)
    \/ Return(t, hist)

\* the calls thread t may start; Connect carries a description out of descs
Start(t, hist, descs) ==
    \/ \E args \in ConnectArgs(descs), promptOk \in BOOLEAN, declOk \in BOOLEAN :
          ConnectStart(t, args, promptOk, declOk, hist)
    \/ \E vt \in tables, promptOk \in BOOLEAN : OpenStart(t, vt, promptOk, hist)

\* calls made one after the other, by one thread
Next ==
    \/ Start(1, TRUE, TableDescs)
    \/ Step(1, TRUE, SchemaAnswers, MaxRows)
    \/ Restart

Spec == Init /\ [][Next]_vars

\* calls of different threads interleave (connections used from several
\* goroutines; for the cache files, also several processes on one .cache); the
\* data generator answers up to ConcRows rows, the schema generator schemas
\* of one column, and Connect carries one description
ConcRows == 1
ConcDescs == {"d1"}
ConcSchemas == SchemaAnswers \ {[kind |-> "parsed", columns |-> SchemaS2]}

ConcNext ==
    \/ \E t \in Threads : Start(t, FALSE, ConcDescs)
    \/ \E t \in Threads : Step(t, FALSE, ConcSchemas, ConcRows)
    \/ Restart

ConcSpec == Init /\ [][ConcNext]_vars

\* the schemas that pass validation, and the row sequences Open serves for them
ValidSchemas ==
    {a.columns : a \in {x \in SchemaAnswers : x.kind = "parsed" /\ Validate(x.columns) = ""}}

ServedRows ==
    UNION { {a.rows : a \in {x \in DataAnswers(makeDataSchema(cs)) :
                                x.kind = "parsed" /\ Len(x.rows) > 0}} : cs \in ValidSchemas }

\* the schemas a cursor may carry: those above and every one-column schema, so
\* that each column type meets each kind of cached value
CursorSchemas ==
    ValidSchemas \cup { << Col(n, t, "") >> : n \in {"a", "b"}, t \in validTypes }

\* the row sequences the generator answers for them, which Open returns and
\* writes to the cache file (main.go:216-231)
GeneratedRows(maxRows) ==
    UNION { {a.rows : a \in {x \in DataAnswersUpTo(makeDataSchema(cs), maxRows) :
                                x.kind = "parsed" /\ Len(x.rows) > 0}} : cs \in CursorSchemas }

\* what a cache file may hold while Opens of any number of goroutines and
\* processes write it (main.go:226): a response of up to fileRows rows cut after
\* any byte, over what was left of another write
CacheContents(fileRows) == {Marshal(rows) : rows \in GeneratedRows(fileRows)}
CachePrefixes(fileRows) ==
    UNION { {SubSeq(data, 1, k) : k \in WriteCuts(data)} : data \in CacheContents(fileRows) }
CacheFiles(fileRows) ==
    LET contents == CacheContents(fileRows)
    IN  UNION { UNION { {Written(old, data, k) : k \in WriteCuts(data)} : data \in contents } :
                  old \in CachePrefixes(fileRows) }

\* the buffers os.ReadFile (main.go:171) may return: each read appends what the
\* file holds past the buffer's end at that moment, and the file may be another
\* one of cacheFiles at every read
RECURSIVE ReadOn(_, _, _)
ReadOn(cacheFiles, seen, frontier) ==
    IF frontier = {} THEN seen
    ELSE LET more == UNION { {buf \o ReadAt(file, Len(buf)) :
                                 file \in {f \in cacheFiles : Len(f) > Len(buf)}} :
                               buf \in frontier }
         IN  ReadOn(cacheFiles, seen \cup frontier, more \ (seen \cup frontier))

ReadBuffers(fileRows) == ReadOn(CacheFiles(fileRows), {}, {<<>>})

\* the rows of the buffers that decode (main.go:172-175)
TornRows(fileRows) ==
    {ReadCache(buf).rows : buf \in {b \in ReadBuffers(fileRows) : ReadCache(b).ok}}

\* the row sequences a cursor of Open may hold: a generator answer of up to
\* maxRows rows, returned as it is or read whole from the cache file written for
\* an earlier resolution of the name, or the rows of a read that other Opens'
\* writes of up to fileRows rows fell into
CursorRows(maxRows, fileRows) == GeneratedRows(maxRows) \cup TornRows(fileRows)

\* a cursor returned by Open: its rows are those of CursorRows, its columns are
\* the handle's
CursorStart ==
    /\ schemaCache = Empty
    /\ files = Empty
    /\ apiKey \in BOOLEAN
    /\ th = [t \in Threads |-> Idle]
    /\ tables = {}
    /\ prevResolve = Empty
    /\ lastGen = Empty
    /\ openFailed = {}
    /\ \E name \in TableNames, cs \in CursorSchemas, rows \in CursorRows(MaxRows, ConcRows) :
          cursor = NewCursor([tableName |-> name, columns |-> cs], rows)
    /\ out = NoOut

CursorInit == CursorStart /\ scan = NoScan

\* every cursor Open returns, with calls made one after the other or
\* interleaved, is one of the cursors CursorStart starts from (an invariant of
\* Spec and of ConcSpec)
OpenCursorsAreStartCursors ==
    \A t \in Threads :
        (th[t].op = "Open" /\ th[t].pc = "done" /\ th[t].err = "") =>
            /\ th[t].cur.data \in CursorRows(MaxRows, ConcRows)
            /\ th[t].cur.columns \in CursorSchemas
            /\ th[t].cur.tableName \in TableNames
            /\ th[t].cur.pos = 0

ColumnIndexes == -1..2

\* the constraint lists BestIndex is given: up to MaxConstraints constraints
MaxConstraints == 2
Constraints == {Constraint(0, "EQ", TRUE), Constraint(1, "GT", FALSE)}
ConstraintLists == UNION {[1..n -> Constraints] : n \in 0..MaxConstraints}

\* the calls of the engine on one cursor and its table, in any order
CursorStep ==
    /\ \/ \E idxNum \in 0..1, idxStr \in {"", "x"}, vals \in {<<>>, <<Num(2)>>} :
             Filter(idxNum, idxStr, vals)
       \/ CursorNext
       \/ CursorEOF
       \/ CursorRowid
       \/ \E col \in ColumnIndexes : CursorColumn(col)
       \/ Close
       \/ \E cst \in ConstraintLists : BestIndex(cst, <<>>)
    /\ UNCHANGED scan

CursorSpec == CursorInit /\ [][CursorStep]_vars

\* ---------------------------------------------------------- the scan loop
\* the engine's full scan: Filter, then while EOF is false read the row's
\* columns, take its Rowid and call Next; scan.visited is the Rowids met and
\* scan.advances the Next calls made since Filter
ScanFilter ==
    /\ scan.pc = "filter"
    /\ \E idxNum \in 0..1 : Filter(idxNum, "", <<>>)
    /\ scan' = [pc |-> "test", visited |-> <<>>, advances |-> 0]

ScanTest ==
    /\ scan.pc = "test"
    /\ CursorEOF
    /\ scan' = [scan EXCEPT !.pc = IF EOF(cursor) THEN "done" ELSE "row"]

ScanRead ==
    /\ scan.pc = "row"
    /\ \E col \in 0..(Len(cursor.columns) - 1) : CursorColumn(col)
    /\ scan' = [scan EXCEPT !.pc = "rowid"]

ScanRowid ==
    /\ scan.pc = "rowid"
    /\ CursorRowid
    /\ scan' = [scan EXCEPT !.pc = "next", !.visited = Append(@, Rowid(cursor))]

ScanAdvance ==
    /\ scan.pc = "next"
    /\ CursorNext
    /\ scan' = [scan EXCEPT !.pc = "test", !.advances = @ + 1]

\* after the scan: further Next and EOF calls, or a new scan
ScanPast ==
    /\ scan.pc = "done"
    /\ CursorNext \/ CursorEOF
    /\ UNCHANGED scan

ScanAgain ==
    /\ scan.pc = "done"
    /\ \E idxNum \in 0..1 : Filter(idxNum, "", <<>>)
    /\ scan' = [pc |-> "test", visited |-> <<>>, advances |-> 0]

ScanLoop == ScanFilter \/ ScanTest \/ ScanRead \/ ScanRowid \/ ScanAdvance

ScanNext == ScanLoop \/ ScanPast \/ ScanAgain

\* a scan starts on a cursor fresh from Open; ScanAgain starts the later ones,
\* with the cursor past its end
ScanInit ==
    /\ CursorStart
    /\ scan = [pc |-> "filter", visited |-> <<>>, advances |-> 0]

\* the engine keeps running its loop until EOF
ScanSpec == ScanInit /\ [][ScanNext]_vars /\ WF_vars(ScanLoop)

\* ----------------------------------------------------------------- claims
ColNames(columns) == {columns[i].Name : i \in 1..Len(columns)}

\* a finished Connect of the thread of Spec that follows an earlier returned
\* Connect for the same name in this process
SecondResolve(name) ==
    /\ th[1].pc = "done" /\ th[1].op = "Connect" /\ th[1].tableName = name
    /\ name \in DOMAIN prevResolve

\* the columns a Connect hands back: those of its table, none when it fails
Returned(outcome, columns) == IF outcome = "table" THEN columns ELSE <<>>

\* C1 as stated: over two Connect calls for a name made one after the other the
\* schema generator is invoked at most once, whatever it answers, and both calls
\* return the same column sequence.
C1_AtMostOnceWhateverAnswer ==
    \A name \in TableNames :
        SecondResolve(name) =>
            /\ ~(prevResolve[name].gen /\ th[1].gen)
            /\ Returned(Outcome(th[1].err), th[1].columns)
                  = Returned(prevResolve[name].outcome, prevResolve[name].columns)

\* C1 amended: when the first of two Connect calls for a name resolved its columns
\* (from the schemaCache or from a generator answer that passed validation), the
\* second makes no generator call and resolves the same column sequence, so the
\* calls that return a table return identical columns; the generator is invoked
\* twice over the two calls only when the first call's generation failed.
C1_IdempotentResolve ==
    \A name \in TableNames :
        SecondResolve(name) =>
            /\ prevResolve[name].columns # <<>> =>
                  /\ ~th[1].gen
                  /\ th[1].columns = prevResolve[name].columns
                  /\ th[1].err = "" => th[1].vtab.columns = prevResolve[name].columns
            /\ (prevResolve[name].gen /\ th[1].gen) =>
                  prevResolve[name].outcome = "generation failed"

\* the second call, with another description, reuses what the first generated
C1_Witness ==
    \E name \in TableNames :
        /\ SecondResolve(name)
        /\ prevResolve[name].gen /\ prevResolve[name].outcome = "table"
        /\ th[1].tableDesc # prevResolve[name].tableDesc
        /\ th[1].err = "" /\ ~th[1].gen
        /\ th[1].vtab.columns = prevResolve[name].columns

\* a finished Open of the thread of Spec for a name for which an earlier Open
\* returned a cursor built from a generator answer
LaterOpen(name) ==
    /\ th[1].pc = "done" /\ th[1].op = "Open" /\ th[1].tableName = name
    /\ name \in DOMAIN lastGen

ServedFromCache(name) ==
    /\ th[1].err = "" /\ ~th[1].gen /\ th[1].from = "cache"
    /\ th[1].cur.data = lastGen[name].rows

\* C2 as stated: once an Open returned a cursor built from a generator answer,
\* every later Open for the name succeeds with the same rows and no generator call.
C2_LaterOpensReuse ==
    \A name \in TableNames : LaterOpen(name) => ServedFromCache(name)

\* C2 amended: once an Open returned a cursor built from a generator answer and
\* its write of the cache file completed, every later Open for the name (made
\* after it, one at a time, in this or a later process) succeeds with the same
\* rows and makes no generator call.
C2_LaterOpensReusePersisted ==
    \A name \in TableNames :
        (LaterOpen(name) /\ lastGen[name].persisted) => ServedFromCache(name)

C2_Witness ==
    \E name \in TableNames :
        /\ LaterOpen(name) /\ lastGen[name].persisted /\ ~lastGen[name].restarted
        /\ ServedFromCache(name)
        /\ Len(th[1].cur.data) = 2

\* C3: concurrent Connect calls for one uncached name coalesce: at no time are
\* two schema-generator requests for the same name outstanding.
C3_OneSchemaRequestPerName ==
    \A t, u \in Threads :
        (t # u /\ th[t].pc = "c_gen" /\ th[u].pc = "c_gen")
            => th[t].tableName # th[u].tableName

\* C4: concurrent Open calls for one name without a cache file coalesce: at no
\* time are two of them between their generator request and the end of their
\* cache-file write.
C4_OneDataRequestPerName ==
    \A t, u \in Threads :
        (t # u /\ th[t].pc \in {"o_gen", "o_write"} /\ th[u].pc \in {"o_gen", "o_write"})
            => th[t].tableName # th[u].tableName

\* C5: after an Open materialized rows R and its write completed, and the
\* process was restarted, the cache file decodes to exactly R, and an Open
\* returns a cursor over R without a generator call.
C5_RoundTripAcrossRestart ==
    \A name \in DOMAIN lastGen :
        (lastGen[name].persisted /\ lastGen[name].restarted) =>
            /\ ReadCache(FileOf(name)).ok
            /\ ReadCache(FileOf(name)).rows = lastGen[name].rows
            /\ LaterOpen(name) => ServedFromCache(name)

\* rows with a fractional number and a string read back after a restart
C5_Witness ==
    \E name \in TableNames :
        /\ LaterOpen(name) /\ lastGen[name].persisted /\ lastGen[name].restarted
        /\ ServedFromCache(name)
        /\ Len(th[1].cur.data) = 2
        /\ \E i \in 1..Len(th[1].cur.data) :
              "a" \in DOMAIN th[1].cur.data[i] /\ th[1].cur.data[i]["a"] = Num(3)

\* C6: every key of every row served by a cursor is the name of a column
\* declared for the cursor's table.
C6_RowKeysDeclared ==
    \A t \in Threads :
        (th[t].pc = "done" /\ th[t].op = "Open" /\ th[t].err = "") =>
            \A i \in 1..Len(th[t].cur.data) :
                DOMAIN th[t].cur.data[i] \subseteq ColNames(th[t].cur.columns)

\* C7: a Connect that fails before the declaration (missing arguments or key,
\* prompt, generator error, unparsable answer, zero columns, empty or repeated
\* name, type outside the enum) returns no table, declares nothing and leaves the
\* schemaCache as it was when the call began.
C7_FailedResolveLeavesNoTrace ==
    (th[1].pc = "done" /\ th[1].op = "Connect"
        /\ th[1].err \notin {"", "DeclareVTab failed"}) =>
        /\ schemaCache = th[1].startCache
        /\ th[1].vtab = NoTable
        /\ th[1].declared = <<>>
        /\ \A vt \in tables : vt.tableName # th[1].tableName

C7_Witness ==
    /\ th[1].pc = "done" /\ th[1].op = "Connect" /\ th[1].gen
    /\ th[1].err = "invalid column type"
    /\ schemaCache = Empty

WellFormed(columns) ==
    /\ Len(columns) >= 1
    /\ \A i \in 1..Len(columns) :
          columns[i].Name # "" /\ columns[i].Type \in {"INTEGER", "TEXT", "REAL", "BLOB"}
    /\ \A i, j \in 1..Len(columns) : i # j => columns[i].Name # columns[j].Name

\* C8: every schemaCache entry, and the column list of every table handle, is a
\* non-empty sequence of columns with non-empty, pairwise distinct names and
\* types among INTEGER, TEXT, REAL, BLOB.
C8_CachedSchemasWellFormed ==
    /\ \A name \in DOMAIN schemaCache : WellFormed(schemaCache[name])
    /\ \A vt \in tables : WellFormed(vt.columns)
    /\ \A t \in Threads : th[t].vtab # NoTable => WellFormed(th[t].vtab.columns)

\* two tables returned for one name with different columns, one of them the
\* cached ones (two Connect calls raced)
C8_Witness ==
    \E name \in DOMAIN schemaCache :
        \E vt \in tables, other \in tables :
            /\ vt.tableName = name /\ vt.columns = schemaCache[name]
            /\ other.tableName = name /\ other.columns # vt.columns

OpenOf(t) == th[t].op = "Open" /\ th[t].pc # "idle"

\* C9: an Open that fails (missing key, prompt, generator error, unparsable
\* answer, zero rows) returns no cursor and leaves every cache file as it was, so a
\* cursor built from a generator answer has at least one row; the cache stays
\* unusable and the next Open for the name takes the generation path again.
C9_FailedOpenLeavesNoFile ==
    /\ (OpenOf(1) /\ th[1].pc = "done" /\ th[1].err # "") =>
          /\ files = th[1].startFiles
          /\ th[1].cur = NoCursor
          /\ ~ReadCache(FileOf(th[1].tableName)).ok
    /\ (OpenOf(1) /\ th[1].pc = "done" /\ th[1].err = "" /\ th[1].from = "gen") =>
          Len(th[1].cur.data) >= 1
    /\ (OpenOf(1) /\ th[1].afterFail /\ th[1].pc # "o_read") =>
          /\ th[1].from # "cache"
          /\ th[1].gen \/ th[1].err \in {"OPENAI_API_KEY not set", "failed to render data prompt"}

\* the Open after a failed one asks the generator again, gets zero rows, and
\* the partly written file of an earlier write is still what it was
C9_Witness ==
    /\ OpenOf(1) /\ th[1].pc = "done" /\ th[1].afterFail /\ th[1].gen
    /\ th[1].err = "no data generated"
    /\ th[1].tableName \in DOMAIN files
    /\ Len(files[th[1].tableName]) > 0

\* C10: for a cursor over N rows at position p, EOF is false iff 0 <= p <= N-1
\* and true iff p >= N; Column fails with the out-of-range error iff p >= N or the
\* column index is outside 0..(number of columns)-1.
C10_CursorBounds ==
    LET N == Len(cursor.data)
        p == cursor.pos
    IN  /\ out.op = "EOF" =>
              /\ (out.b = FALSE) <=> (0 <= p /\ p <= N - 1)
              /\ (out.b = TRUE) <=> (p >= N)
        /\ out.op = "Column" =>
              ((out.err = "invalid cursor position or column index")
                  <=> (p >= N \/ out.col \notin 0..(Len(cursor.columns) - 1)))

\* EOF answered true exactly at position N of a two-row cursor
C10_Witness ==
    /\ out.op = "EOF" /\ out.b
    /\ cursor.pos = Len(cursor.data) /\ cursor.pos = 2

\* ------------------------------------------------------ claims on the cursor
\* the last call on the cursor was a Column at an in-range position and index
\* whose column name is a key of the row
ReadPresent ==
    /\ out.op = "Column"
    /\ ~OutOfRange(cursor, out.col)
    /\ cursor.columns[out.col + 1].Name \in DOMAIN cursor.data[cursor.pos + 1]

ReadType == cursor.columns[out.col + 1].Type
ReadValue == cursor.data[cursor.pos + 1][cursor.columns[out.col + 1].Name]

\* the kinds of value the specification lets each declared type accept; a
\* float64 is held in halves, so the integer-valued ones are the even ones
KindMatches(type, value) ==
    IF type = "INTEGER"
    THEN value.k = "int64" \/ (value.k = "float64" /\ value.n % 2 = 0)
    ELSE IF type = "TEXT" THEN value.k = "string"
    ELSE IF type = "REAL" THEN value.k = "float64"
    ELSE IF type = "BLOB" THEN value.k \in {"string", "bytes"}
    ELSE FALSE

TypeMismatches ==
    {"type mismatch: expected integer", "type mismatch: expected text",
     "type mismatch: expected real", "type mismatch: expected blob"}

\* C11: a Column call at an in-range position and index on a present value
\* succeeds exactly when the kind of the value matches the declared type, and
\* fails with a type mismatch otherwise: INTEGER takes only an integer-valued
\* number and returns that integer, TEXT only a string, REAL only a float64,
\* BLOB a string or a byte sequence.
C11_ColumnKindMatch ==
    ReadPresent =>
        /\ (out.err = "") = KindMatches(ReadType, ReadValue)
        /\ out.err # "" => out.err \in TypeMismatches
        /\ (out.err = "" /\ ReadType = "INTEGER" /\ ReadValue.k = "float64")
              => 2 * out.res.n = ReadValue.n

\* C12: Column, whatever its outcome (a value, null for an absent key, out of
\* range, type mismatch), and also EOF, Rowid and Close leave the cursor's
\* position, rows and columns as they were, so that every call after a failed
\* Column finds the cursor it would have found without it.
C12_ReadsLeaveCursor ==
    [][out'.op \in {"Column", "EOF", "Rowid", "Close"} => cursor' = cursor]_vars

\* a Column call failed with a type mismatch in the middle of a scan of two rows
C12_Witness ==
    /\ out.op = "Column" /\ out.err \in TypeMismatches
    /\ out.at = 1 /\ cursor.pos = 1 /\ Len(cursor.data) = 2

\* C13: Filter, called at any position with any index number, index string and
\* argument values, leaves the cursor at position 0 over the same rows and
\* returns no error; BestIndex, for any list of constraints, reports one "not
\* used" per constraint and touches no cursor.
C13_FilterResets ==
    [][/\ out'.op = "Filter" =>
             /\ cursor' = [cursor EXCEPT !.pos = 0]
             /\ out'.err = ""
       /\ out'.op = "BestIndex" =>
             /\ Len(out'.used) = out'.n
             /\ \A i \in 1..Len(out'.used) : ~out'.used[i]
             /\ out'.err = ""
             /\ cursor' = cursor]_vars

\* Filter was called on a cursor that was past its end
C13_Witness ==
    /\ out.op = "Filter" /\ out.at > Len(cursor.data)
    /\ cursor.pos = 0

\* the positions a full scan of n rows visits
Positions(n) == [i \in 1..n |-> i - 1]

\* the trace of the scan loop: it has visited the positions below the cursor's,
\* one Next each, and when it has ended it has visited every row, made one Next
\* per row, and EOF is true
ScanOK ==
    /\ scan.pc \in {"test", "row", "rowid"} =>
          /\ scan.advances = cursor.pos
          /\ scan.visited = Positions(cursor.pos)
    /\ scan.pc = "next" =>
          /\ scan.advances = cursor.pos
          /\ scan.visited = Positions(cursor.pos + 1)
    /\ scan.pc = "done" =>
          /\ scan.advances = Len(cursor.data)
          /\ scan.visited = Positions(Len(cursor.data))
          /\ EOF(cursor)

\* C14: a full scan ends and is complete: after Filter the loop "while EOF is
\* false: read the row, Next" reaches its end after exactly N Next calls, having
\* visited the positions 0..N-1 once each in increasing order with Rowid equal to
\* the position, and EOF stays true under further Next calls until the next Filter.
C14_FullScan == []ScanOK /\ <>(scan.pc = "done")

\* a scan of MaxRows rows has ended and Next was called past the end: EOF is
\* still true
C14_Witness ==
    /\ scan.pc = "done" /\ Len(cursor.data) = MaxRows
    /\ scan.advances = MaxRows
    /\ cursor.pos = MaxPos
    /\ out.op = "EOF" /\ out.b

\* ------------------------------------------------ claims on the two caches
\* C15: an entry of the schemaCache is written once: while the process runs (any
\* step but a restart), no step of any Connect call, made after or during
\* another, changes or removes an entry that is set.
C15_CacheWriteOnce ==
    [][Restart \/ \A n \in DOMAIN schemaCache :
                      n \in DOMAIN schemaCache' /\ schemaCache'[n] = schemaCache[n]]_vars

\* the errors of Open that come from the generator's answer (main.go:208-223)
DataFailures == {"data generation failed", "failed to parse data JSON", "no data generated"}

\* the errors of Open met before the generator is asked (main.go:179-196)
BeforeRequest == {"OPENAI_API_KEY not set", "failed to render data prompt"}

\* the finished Open of the thread of Spec asked the generator, got rows that
\* passed the checks, and did not get them written to the cache file
WriteFailed ==
    /\ OpenOf(1) /\ th[1].pc = "done" /\ th[1].gen
    /\ th[1].err \notin DataFailures
    /\ ~th[1].persisted

\* C16: when the generator returns rows that pass the checks and writing them to
\* the cache file fails, Open still returns a cursor at position 0 over exactly
\* the generated rows, the cache file stays unusable, and the next Open for the
\* name is not served from the cache: it asks the generator again (unless it
\* returns before the request, for lack of the key or of the prompt).
C16_WriteFailureNotFatal ==
    /\ WriteFailed =>
          /\ th[1].err = ""
          /\ Len(th[1].rows) >= 1
          /\ th[1].cur = NewCursor(th[1], th[1].rows)
          /\ ~ReadCache(FileOf(th[1].tableName)).ok
    /\ \A name \in TableNames :
          (LaterOpen(name) /\ ~lastGen[name].persisted /\ ~lastGen[name].restarted) =>
              /\ th[1].from # "cache"
              /\ th[1].gen \/ th[1].err \in BeforeRequest

\* after an Open whose write of the cache file failed, the next Open asked the
\* generator again, returned its rows and wrote them
C16_Witness ==
    \E name \in TableNames :
        /\ LaterOpen(name) /\ ~lastGen[name].persisted /\ ~lastGen[name].restarted
        /\ th[1].gen /\ th[1].err = "" /\ th[1].persisted
        /\ th[1].cur.data # lastGen[name].rows

\* no write of a cache file is under way
NoWriteInProgress == \A t \in Threads : th[t].pc # "o_write"

\* the file is the complete encoding of the rows of one generator response
Complete(file) == \E rows \in ServedRows : file = Marshal(rows)

\* C17: writes of the cache files are all-or-nothing: whenever no write is under
\* way (also after a write that stopped part-way, or a restart in the middle of
\* one), every cache file that exists holds the complete rows of one generator
\* response, and the rows an Open serves from the cache are such rows.
C17_WritesAllOrNothing ==
    /\ NoWriteInProgress => \A n \in DOMAIN files : Complete(files[n])
    /\ \A t \in Threads :
          (OpenOf(t) /\ th[t].pc = "done" /\ th[t].from = "cache") =>
              th[t].cur.data \in ServedRows

\* ------------------------------------------------- claims on the life cycle
\* C18: within one process, an Open for a table name runs (asks the data
\* generator, returns a cursor) only on a table that a Connect returned after
\* the engine took its declared schema; the name's columns are then resolved in
\* the schemaCache, and the columns of the data request and of the cursor are
\* those of that table, whose declared schema was built from them.
C18_OpenAfterDeclare ==
    \A t \in Threads :
        OpenOf(t) =>
            LET vt == th[t].vtab
                name == th[t].tableName
            IN  /\ vt # NoTable /\ vt.tableName = name
                /\ vt \in tables
                /\ Len(vt.declared) >= 1
                /\ vt.declared = BuildSchema(vt.columns)
                /\ name \in DOMAIN schemaCache /\ schemaCache[name] = vt.columns
                /\ th[t].gen => th[t].request = makeDataSchema(vt.columns)
                /\ (th[t].pc = "done" /\ th[t].err = "") =>
                      /\ th[t].cur.columns = vt.columns
                      /\ th[t].cur.tableName = name

\* an Open on a table of two declared columns asked the generator and returned
\* a cursor of two rows
C18_Witness ==
    /\ OpenOf(1) /\ th[1].pc = "done" /\ th[1].err = "" /\ th[1].gen
    /\ th[1].vtab.declared = BuildSchema(SchemaS2)
    /\ th[1].request = makeDataSchema(SchemaS2)
    /\ Len(th[1].cur.data) = 2

\* the earlier Connect for the name returned after DeclareVTab failed on columns
\* that the generator had just answered
DeclareFailedBefore(name) ==
    /\ SecondResolve(name)
    /\ prevResolve[name].gen
    /\ prevResolve[name].outcome = "failed"
    /\ prevResolve[name].columns # <<>>

\* C19: when DeclareVTab fails on columns that were just generated and
\* validated, Connect returns the error and no table, and the columns stay in the
\* schemaCache; a later Connect for the name makes no generator call, resolves
\* the same columns and declares the same schema again.
C19_DeclareFailureKeepsCache ==
    /\ (th[1].pc = "done" /\ th[1].op = "Connect" /\ th[1].err = "DeclareVTab failed") =>
          /\ th[1].vtab = NoTable
          /\ th[1].tableName \in DOMAIN schemaCache
          /\ schemaCache[th[1].tableName] = th[1].columns
          /\ Validate(th[1].columns) = ""
    /\ \A name \in TableNames :
          DeclareFailedBefore(name) =>
              /\ ~th[1].gen
              /\ th[1].columns = prevResolve[name].columns
              /\ th[1].err \in {"", "DeclareVTab failed"}
              /\ th[1].err = "" =>
                    /\ th[1].declared = BuildSchema(prevResolve[name].columns)
                    /\ th[1].vtab.columns = prevResolve[name].columns

\* after a Connect whose DeclareVTab failed on two generated columns, the next
\* Connect for the name, with another description, returned their table with
\* no generator call
C19_Witness ==
    \E name \in TableNames :
        /\ DeclareFailedBefore(name)
        /\ prevResolve[name].columns = SchemaS2
        /\ th[1].tableDesc # prevResolve[name].tableDesc
        /\ th[1].err = "" /\ ~th[1].gen
        /\ th[1].vtab.declared = BuildSchema(SchemaS2)

\* C20: whenever no write is under way every cache file that exists holds at
\* least one row, and every cursor Open returns, from the cache or from a
\* generator answer, has at least one row, so that EOF is false right after Open
\* and after Filter.
C20_FilesHoldRows ==
    /\ NoWriteInProgress =>
          \A n \in DOMAIN files : ReadCache(FileOf(n)).ok /\ Len(ReadCache(FileOf(n)).rows) >= 1
    /\ \A t \in Threads :
          (OpenOf(t) /\ th[t].pc = "done" /\ th[t].err = "") =>
              /\ Len(th[t].cur.data) >= 1
              /\ ~EOF(th[t].cur)
              /\ ~EOF(FilterPos(th[t].cur, 0, "", <<>>))

====
